---- MODULE Spec2Model ----
(***************************************************************************)
(* Model of homeassistant/components/fritzbox/light.py: the FritzboxLight  *)
(* entity (one per light bulb device of the coordinator), its read         *)
(* accessors, the two nearest-value searches and the turn-on / turn-off    *)
(* commands with their device call and coordinator refresh.                *)
(***************************************************************************)
EXTENDS Integers, Sequences, FiniteSets, TLC

VARIABLES
    data,                   \* coordinator.data: ain -> device snapshot
    supported_colors,       \* self._supported_colors, per entity
    supported_color_temps,  \* self._supported_color_temps, per entity
    supported_color_mode,   \* self._supported_color_mode, per entity
    init_code,              \* history: device.supported_color_mode read by __init__
    pc,                     \* per entity: position inside the running command
    cmd,                    \* per entity: the command being run / last run
    kwargs,                 \* per entity: the kwargs of that command
    device_calls,           \* per device: control calls received since its entity's command began
    events,                 \* per entity: what the running command did, in order
    result,                 \* per entity: how the last command ended
    ret                     \* last direct call of a nearest-value search

vars == <<data, supported_colors, supported_color_temps, supported_color_mode,
          init_code, pc, cmd, kwargs, device_calls, events, result, ret>>

(***************************************************************************)
(* Bounds of the model.                                                    *)
(***************************************************************************)
MaxHue == 2
MaxSat == 1
MaxTemp == 3
MaxLen == 3

(***************************************************************************)
(* Program constants.                                                      *)
(***************************************************************************)
max_mireds == 370

COLOR_MODE_COLOR_TEMP == "color_temp"
COLOR_MODE_HS == "hs"
COLOR_MODE_ONOFF == "onoff"
ATTR_HS_COLOR == "hs_color"
ATTR_COLOR_TEMP == "color_temp"

\* What a property returns for Python's None.
NoMode == "None"

Abs(x) == IF x < 0 THEN -x ELSE x

\* All sequences over S of length at most n.
SeqsUpTo(S, n) == UNION {[1..k -> S] : k \in 0..n}

(***************************************************************************)
(* Input domains.                                                          *)
(***************************************************************************)
Hues == 0..MaxHue
Sats == 0..MaxSat
HsColors == {<<h, s>> : h \in Hues, s \in Sats}
Temps == 0..MaxTemp

\* Mode codes a device reports; 0 stands for every code other than 1, 4, 5.
ModeCodes == {0, 1, 4, 5}

\* A snapshot of one device as the coordinator holds it.  The current mode a
\* snapshot reports is one of the modes the same snapshot says are supported.
CurrentModesOf(code) ==
    CASE code = 1 -> {1}
      [] code = 4 -> {4}
      [] code = 5 -> {1, 4}
      [] OTHER -> {0}

Snapshots ==
    {s \in [present : BOOLEAN, state : BOOLEAN,
            color_mode : {0, 1, 4}, supported_color_mode : ModeCodes] :
        s.color_mode \in CurrentModesOf(s.supported_color_mode)}

\* Failure kinds the collaborators raise.
Errors == {"HTTPError", "ConnectionError"}

\* device.get_colors() of the devices of the command specifications: no
\* colours, or two named groups of (hue, saturation) pairs.
ColorGroupChoices ==
    { <<>>, << << <<0, 1>>, <<2, 0>> >>, << <<2, 1>> >> >> }

\* device.get_color_temps() of those devices (Kelvin).
ColorTempChoices == { <<>>, <<2700, 3000, 4000, 6500>> }

\* kwargs of a turn-on service call: a dict that may hold hs_color, color_temp.
RequestedHs == { <<1, 1>>, <<2, 0>> }
RequestedMireds == { 200, max_mireds }
KwargsChoices ==
    { <<>> }
    \cup { [hs_color |-> hs] : hs \in RequestedHs }
    \cup { [color_temp |-> ct] : ct \in RequestedMireds }
    \cup { [hs_color |-> hs, color_temp |-> ct] :
             hs \in RequestedHs, ct \in RequestedMireds }

NoKwargs == <<>>
Has(kw, key) == key \in DOMAIN kw

(***************************************************************************)
(* homeassistant.util.color                                                *)
(***************************************************************************)
\* math.floor(1000000 / mired_temperature)
color_temperature_mired_to_kelvin(mired) == 1000000 \div mired

(***************************************************************************)
(* Python's min(seq, key=lambda x: abs(x - target)): the first element     *)
(* whose key is smallest; a later element replaces the best one only when  *)
(* its key is strictly smaller.  min() of an empty sequence raises.        *)
(***************************************************************************)
MinRaises(seq) == seq = <<>>

\* A minimum search that lets a later, equally near element replace the best.
RECURSIVE MinScanLast(_, _, _, _)
MinScanLast(seq, target, i, best) ==
    IF i > Len(seq) THEN best
    ELSE MinScanLast(seq, target, i + 1,
                     IF Abs(seq[i] - target) <= Abs(best - target)
                     THEN seq[i] ELSE best)

RECURSIVE MinScan(_, _, _, _)
MinScan(seq, target, i, best) ==
    IF i > Len(seq) THEN best
    ELSE MinScan(seq, target, i + 1,
                 IF Abs(seq[i] - target) < Abs(best - target)
                 THEN seq[i] ELSE best)

MinByDistance(seq, target) == MinScan(seq, target, 2, seq[1])

\* for _name, colors in supported_colors.items(): self._supported_colors.extend(colors)
RECURSIVE Flatten(_)
Flatten(groups) ==
    IF groups = <<>> THEN <<>> ELSE Head(groups) \o Flatten(Tail(groups))

(***************************************************************************)
(* FritzboxLight                                                           *)
(***************************************************************************)
Entities == DOMAIN pc

\* Every entity constructed with the ain of one and the same device.
BoundAinShared(e) == CHOOSE d \in DOMAIN data : TRUE

\* async_setup_entry constructs each entity with the ain of its own device.
BoundAin(e) == e

\* self.device: the coordinator's snapshot of the entity's device.
device(e) == data[BoundAin(e)]

\* __init__: the capability set derived from the mode code.
SupportedModesFromCode(code) ==
    IF code = 1 THEN {COLOR_MODE_COLOR_TEMP}
    ELSE IF code = 4 THEN {COLOR_MODE_HS}
    ELSE IF code = 5 THEN {COLOR_MODE_HS, COLOR_MODE_COLOR_TEMP}
    ELSE {COLOR_MODE_ONOFF}

\* The on/off flag returned without looking at the presence flag.
is_on_ignoring_presence(e) == data[BoundAin(e)].state

is_on(e) == IF ~device(e).present THEN FALSE ELSE device(e).state

\* The capability set derived again from the current snapshot on every read.
supported_color_modes_live(e) ==
    SupportedModesFromCode(data[BoundAin(e)].supported_color_mode)

supported_color_modes(e) == supported_color_mode[e]

color_mode(e) ==
    IF device(e).color_mode = 1 THEN COLOR_MODE_COLOR_TEMP
    ELSE IF device(e).color_mode = 4 THEN COLOR_MODE_HS
    ELSE NoMode

\* hue_values = [color[0] for color in self._supported_colors]
RECURSIVE hue_values(_)
hue_values(colors) ==
    IF colors = <<>> THEN <<>>
    ELSE <<Head(colors)[1]>> \o hue_values(Tail(colors))

nearest_hue_value(colors, hs_color) ==
    MinByDistance(hue_values(colors), hs_color[1])

\* [color[1] for color in self._supported_colors if color[0] == hue]
RECURSIVE SatsOfHue(_, _)
SatsOfHue(colors, hue) ==
    IF colors = <<>> THEN <<>>
    ELSE (IF Head(colors)[1] = hue THEN <<Head(colors)[2]>> ELSE <<>>)
         \o SatsOfHue(Tail(colors), hue)

\* The saturation candidates taken from every colour, whatever its hue.
sat_values_any_hue(colors, hs_color) == SatsOfHue(colors, colors[1][1])

sat_values(colors, hs_color) ==
    SatsOfHue(colors, nearest_hue_value(colors, hs_color))

nearest_supported_color(colors, hs_color) ==
    <<nearest_hue_value(colors, hs_color),
      MinByDistance(sat_values(colors, hs_color), hs_color[2])>>

nearest_supported_color_temp(temps, color_temp) ==
    MinByDistance(temps, color_temp)

(***************************************************************************)
(* async_turn_on: the device-control call the command chooses.             *)
(***************************************************************************)
Call(fn, args) == [fn |-> fn, args |-> args]

\* The command ends in min()'s ValueError before any call is dispatched.
RaisedValueError == Call("ValueError", <<>>)

\* The colour branch taken whenever hs_color is requested.
ColorBranchUnguarded(e, kw) == Has(kw, ATTR_HS_COLOR)

\* if ATTR_HS_COLOR in kwargs and self._supported_colors:
ColorBranch(e, kw) == Has(kw, ATTR_HS_COLOR) /\ supported_colors[e] # <<>>

\* elif ATTR_COLOR_TEMP in kwargs and self._supported_color_temps:
TempBranch(e, kw) == Has(kw, ATTR_COLOR_TEMP) /\ supported_color_temps[e] # <<>>

SetColorCall(e, kw) ==
    IF MinRaises(hue_values(supported_colors[e])) THEN RaisedValueError
    ELSE IF MinRaises(sat_values(supported_colors[e], kw.hs_color))
    THEN RaisedValueError
    ELSE Call("set_color", nearest_supported_color(supported_colors[e], kw.hs_color))

SetColorTempCall(e, kw) ==
    IF MinRaises(supported_color_temps[e]) THEN RaisedValueError
    ELSE Call("set_color_temp",
              <<nearest_supported_color_temp(
                    supported_color_temps[e],
                    color_temperature_mired_to_kelvin(kw.color_temp))>>)

\* The branches tried in the other order: colour temperature first.
TurnOnCallTempFirst(e, kw) ==
    IF TempBranch(e, kw) THEN SetColorTempCall(e, kw)
    ELSE IF ColorBranch(e, kw) THEN SetColorCall(e, kw)
    ELSE Call("set_state_on", <<>>)

TurnOnCall(e, kw) ==
    IF ColorBranch(e, kw) THEN SetColorCall(e, kw)
    ELSE IF TempBranch(e, kw) THEN SetColorTempCall(e, kw)
    ELSE Call("set_state_on", <<>>)

TurnOffCall == Call("set_state_off", <<>>)

(***************************************************************************)
(* The steps of a command.  pc: "idle" (no command yet), "device_call"     *)
(* (the executor job runs, the coroutine awaits it), "refresh" (awaiting   *)
(* coordinator.async_refresh()), "done" (the command returned or raised).  *)
(***************************************************************************)
Serial(e) == pc[e] \in {"idle", "done"}

\* What the coroutine does next: the position it moves to, how the command
\* has ended (if it has) and what it requests on the way.
Continue(to, outcome, requests) ==
    [pc |-> to, result |-> outcome, requests |-> requests]

\* The job handed to the executor and the refresh requested without waiting.
OnDispatchNoAwait(e) == Continue("device_call", "none", <<"refresh">>)

\* The job's exception swallowed and the refresh requested all the same.
OnDeviceErrorSwallowed(e, err) == Continue("refresh", "none", <<"refresh">>)

\* await self.hass.async_add_executor_job(<call>): the job is handed to the
\* executor and the coroutine waits for it.
OnDispatch(e) == Continue("device_call", "none", <<>>)

\* The awaited job returned: await self.coordinator.async_refresh()
OnDeviceReturn(e) == Continue("refresh", "none", <<"refresh">>)

\* The awaited job raised err: no handler, the exception leaves the command.
OnDeviceError(e, err) == Continue("done", err, <<>>)

\* The awaited refresh returned: the command returns.
OnRefreshReturn(e) == Continue("done", "ok", <<>>)

\* The awaited refresh raised err: no handler, the exception leaves the command.
OnRefreshError(e, err) == Continue("done", err, <<>>)

\* One step of entity e's coroutine: `happened` is what it observed.
Step(e, happened, k) ==
    /\ events' = [events EXCEPT ![e] = @ \o happened \o k.requests]
    /\ pc' = [pc EXCEPT ![e] = k.pc]
    /\ result' = [result EXCEPT ![e] = k.result]

\* The command starts and its call reaches the device of the entity.
Dispatch(e, c) ==
    /\ device_calls' = [device_calls EXCEPT ![BoundAin(e)] = <<c>>]
    /\ events' = [events EXCEPT ![e] = <<"device_call">> \o OnDispatch(e).requests]
    /\ pc' = [pc EXCEPT ![e] = OnDispatch(e).pc]
    /\ result' = [result EXCEPT ![e] = OnDispatch(e).result]

\* The command raised before it dispatched anything.
RaiseEarly(e, err) ==
    /\ device_calls' = [device_calls EXCEPT ![BoundAin(e)] = <<>>]
    /\ events' = [events EXCEPT ![e] = <<>>]
    /\ pc' = [pc EXCEPT ![e] = "done"]
    /\ result' = [result EXCEPT ![e] = err]

async_turn_on(e, kw) ==
    /\ Serial(e)
    /\ cmd' = [cmd EXCEPT ![e] = "turn_on"]
    /\ kwargs' = [kwargs EXCEPT ![e] = kw]
    /\ IF TurnOnCall(e, kw) = RaisedValueError
       THEN RaiseEarly(e, "ValueError")
       ELSE Dispatch(e, TurnOnCall(e, kw))
    /\ UNCHANGED <<data, supported_colors, supported_color_temps,
                   supported_color_mode, init_code, ret>>

async_turn_off(e) ==
    /\ Serial(e)
    /\ cmd' = [cmd EXCEPT ![e] = "turn_off"]
    /\ kwargs' = [kwargs EXCEPT ![e] = NoKwargs]
    /\ Dispatch(e, TurnOffCall)
    /\ UNCHANGED <<data, supported_colors, supported_color_temps,
                   supported_color_mode, init_code, ret>>

DeviceCallReturns(e) ==
    /\ pc[e] = "device_call"
    /\ Step(e, <<"device_returned">>, OnDeviceReturn(e))
    /\ UNCHANGED <<data, supported_colors, supported_color_temps,
                   supported_color_mode, init_code, cmd, kwargs,
                   device_calls, ret>>

DeviceCallRaises(e, err) ==
    /\ pc[e] = "device_call"
    /\ Step(e, <<"device_raised", err>>, OnDeviceError(e, err))
    /\ UNCHANGED <<data, supported_colors, supported_color_temps,
                   supported_color_mode, init_code, cmd, kwargs,
                   device_calls, ret>>

\* What the coordinator may read from the hub on a poll.
PollResults == [DOMAIN data -> Snapshots]

\* The awaited refresh returned: the coordinator holds the polled snapshots.
RefreshReturns(e, polls) ==
    /\ pc[e] = "refresh"
    /\ \E polled \in polls : data' = polled
    /\ Step(e, <<"refresh_returned">>, OnRefreshReturn(e))
    /\ UNCHANGED <<supported_colors, supported_color_temps,
                   supported_color_mode, init_code, cmd, kwargs,
                   device_calls, ret>>

RefreshRaises(e, err) ==
    /\ pc[e] = "refresh"
    /\ Step(e, <<"refresh_raised", err>>, OnRefreshError(e, err))
    /\ UNCHANGED <<data, supported_colors, supported_color_temps,
                   supported_color_mode, init_code, cmd, kwargs,
                   device_calls, ret>>

\* The coordinator's own scheduled update.
ScheduledUpdate ==
    /\ \E polled \in PollResults : data' = polled
    /\ UNCHANGED <<supported_colors, supported_color_temps,
                   supported_color_mode, init_code, pc, cmd, kwargs,
                   device_calls, events, result, ret>>

(***************************************************************************)
(* Direct calls of the two nearest-value searches.                         *)
(***************************************************************************)
NoRet == [fn |-> "none", arg |-> <<>>, value |-> <<>>]

CallNearestColor(e, hs_color) ==
    /\ supported_colors[e] # <<>>
    /\ ret' = [fn |-> "color", arg |-> hs_color,
               value |-> nearest_supported_color(supported_colors[e], hs_color)]
    /\ UNCHANGED <<data, supported_colors, supported_color_temps,
                   supported_color_mode, init_code, pc, cmd, kwargs,
                   device_calls, events, result>>

CallNearestColorTemp(e, color_temp) ==
    /\ supported_color_temps[e] # <<>>
    /\ ret' = [fn |-> "color_temp", arg |-> <<color_temp>>,
               value |-> <<nearest_supported_color_temp(
                               supported_color_temps[e], color_temp)>>]
    /\ UNCHANGED <<data, supported_colors, supported_color_temps,
                   supported_color_mode, init_code, pc, cmd, kwargs,
                   device_calls, events, result>>

(***************************************************************************)
(* Construction: async_setup_entry builds one entity per light bulb device *)
(* of coordinator.data; __init__ reads the device's capabilities.          *)
(***************************************************************************)
InitWith(ains, groupChoices, tempChoices, snaps) ==
    /\ data \in [ains -> snaps]
    /\ \E groups \in [ains -> groupChoices] :
           supported_colors = [e \in ains |-> Flatten(groups[BoundAin(e)])]
    /\ \E temps \in [ains -> tempChoices] :
           supported_color_temps = [e \in ains |-> temps[BoundAin(e)]]
    /\ supported_color_mode =
           [e \in ains |->
               SupportedModesFromCode(data[BoundAin(e)].supported_color_mode)]
    /\ init_code = [e \in ains |-> data[BoundAin(e)].supported_color_mode]
    /\ pc = [e \in ains |-> "idle"]
    /\ cmd = [e \in ains |-> "none"]
    /\ kwargs = [e \in ains |-> NoKwargs]
    /\ device_calls = [d \in ains |-> <<>>]
    /\ events = [e \in ains |-> <<>>]
    /\ result = [e \in ains |-> "none"]
    /\ ret = NoRet

\* One light bulb; every capability list, every snapshot.
Init == InitWith({"ain1"}, ColorGroupChoices, ColorTempChoices, Snapshots)

Next ==
    \/ \E e \in Entities, kw \in KwargsChoices : async_turn_on(e, kw)
    \/ \E e \in Entities : async_turn_off(e)
    \/ \E e \in Entities : DeviceCallReturns(e)
    \/ \E e \in Entities, err \in Errors : DeviceCallRaises(e, err)
    \/ \E e \in Entities : RefreshReturns(e, PollResults)
    \/ \E e \in Entities, err \in Errors : RefreshRaises(e, err)
    \/ ScheduledUpdate

Spec == Init /\ [][Next]_vars

\* Two light bulbs whose snapshots the polls find unchanged: the commands
\* read no snapshot field.
SteadySnapshot ==
    [present |-> TRUE, state |-> FALSE, color_mode |-> 4,
     supported_color_mode |-> 5]

InitCross ==
    InitWith({"ain1", "ain2"}, ColorGroupChoices, ColorTempChoices,
             {SteadySnapshot})

NextCross ==
    \/ \E e \in Entities, kw \in KwargsChoices : async_turn_on(e, kw)
    \/ \E e \in Entities : async_turn_off(e)
    \/ \E e \in Entities : DeviceCallReturns(e)
    \/ \E e \in Entities, err \in Errors : DeviceCallRaises(e, err)
    \/ \E e \in Entities : RefreshReturns(e, {data})
    \/ \E e \in Entities, err \in Errors : RefreshRaises(e, err)

SpecCross == InitCross /\ [][NextCross]_vars

\* One entity and direct calls of its two searches, over every capability
\* list within the bounds.
WideColorGroups == {<<colors>> : colors \in SeqsUpTo(HsColors, MaxLen)}
WideColorTemps == SeqsUpTo(Temps, MaxLen)

InitNearest ==
    \/ InitWith({"ain1"}, WideColorGroups, {<<>>}, {SteadySnapshot})
    \/ InitWith({"ain1"}, {<<>>}, WideColorTemps, {SteadySnapshot})

NextNearest ==
    \/ \E e \in Entities, hs_color \in HsColors : CallNearestColor(e, hs_color)
    \/ \E e \in Entities, color_temp \in Temps :
           CallNearestColorTemp(e, color_temp)

SpecNearest == InitNearest /\ [][NextNearest]_vars

(***************************************************************************)
(* Properties of the nearest-value searches (SpecNearest).                 *)
(***************************************************************************)
HueDistance(color, hs_color) == Abs(color[1] - hs_color[1])
SatDistance(color, hs_color) == Abs(color[2] - hs_color[2])

\* The state after a direct call of _nearest_supported_color on entity e.
ColorReturned(e) == ret.fn = "color" /\ supported_colors[e] # <<>>

\* C1 as stated: _nearest_supported_color returns a pair of the supported
\* list; no supported pair has a smaller hue distance to the request, and no
\* supported pair at the same hue distance has a smaller saturation distance.
C1_NearestAtEqualHueDistance ==
    \A e \in Entities :
        ColorReturned(e) =>
            LET colors == supported_colors[e]
                got == ret.value
                want == ret.arg
            IN  /\ \E i \in DOMAIN colors : colors[i] = got
                /\ \A i \in DOMAIN colors :
                       HueDistance(colors[i], want) >= HueDistance(got, want)
                /\ \A i \in DOMAIN colors :
                       HueDistance(colors[i], want) = HueDistance(got, want)
                           => SatDistance(colors[i], want) >= SatDistance(got, want)

\* C1 amended: _nearest_supported_color returns a pair of the supported
\* list; no supported pair has a smaller hue distance to the request, and no
\* supported pair with the same hue as the returned pair has a smaller
\* saturation distance.
C1_NearestAmongSameHue ==
    \A e \in Entities :
        ColorReturned(e) =>
            LET colors == supported_colors[e]
                got == ret.value
                want == ret.arg
            IN  /\ \E i \in DOMAIN colors : colors[i] = got
                /\ \A i \in DOMAIN colors :
                       HueDistance(colors[i], want) >= HueDistance(got, want)
                /\ \A i \in DOMAIN colors :
                       colors[i][1] = got[1]
                           => SatDistance(colors[i], want) >= SatDistance(got, want)

\* A call whose list holds another pair of the returned hue, farther in
\* saturation, and a pair of another hue at the same hue distance.
C1_Witness ==
    \E e \in Entities :
        /\ ColorReturned(e)
        /\ \E i, j \in DOMAIN supported_colors[e] :
               /\ supported_colors[e][i][1] = ret.value[1]
               /\ SatDistance(supported_colors[e][i], ret.arg)
                      > SatDistance(ret.value, ret.arg)
               /\ supported_colors[e][j][1] # ret.value[1]
               /\ HueDistance(supported_colors[e][j], ret.arg)
                      = HueDistance(ret.value, ret.arg)

\* The state after a direct call of _nearest_supported_color_temp on entity e.
ColorTempReturned(e) == ret.fn = "color_temp" /\ supported_color_temps[e] # <<>>

\* C2: _nearest_supported_color_temp returns the element of the supported
\* list at the first index whose absolute Kelvin difference to the request
\* is minimal.
C2_NearestColorTempFirst ==
    \A e \in Entities :
        ColorTempReturned(e) =>
            LET temps == supported_color_temps[e]
                got == ret.value[1]
                want == ret.arg[1]
            IN  \E m \in DOMAIN temps :
                    /\ temps[m] = got
                    /\ \A j \in DOMAIN temps :
                           Abs(temps[j] - want) >= Abs(temps[m] - want)
                    /\ \A j \in DOMAIN temps :
                           j < m => Abs(temps[j] - want) > Abs(temps[m] - want)

\* A call with two different supported values equally near the request.
C2_Witness ==
    \E e \in Entities :
        /\ ColorTempReturned(e)
        /\ \E i, j \in DOMAIN supported_color_temps[e] :
               /\ supported_color_temps[e][i] = ret.value[1]
               /\ supported_color_temps[e][j] # ret.value[1]
               /\ Abs(supported_color_temps[e][j] - ret.arg[1])
                      = Abs(ret.value[1] - ret.arg[1])

(***************************************************************************)
(* Properties of the commands (Spec).                                      *)
(***************************************************************************)
Range(seq) == {seq[i] : i \in DOMAIN seq}

Succeeded(e) == pc[e] = "done" /\ result[e] = "ok"

\* C3: a turn-on command issues exactly one device-control call: set_color
\* with the supported pair of nearest hue and, for that hue, nearest
\* saturation if hs_color is requested and colours are supported; else set_color_temp with a nearest supported Kelvin value
\* if color_temp is requested and temperatures are supported; else a plain
\* set_state_on.
C3_TurnOnOneCallByPriority ==
    \A e \in Entities :
        cmd[e] = "turn_on" =>
            LET kw == kwargs[e]
                colors == supported_colors[e]
                temps == supported_color_temps[e]
                wantsColor == ATTR_HS_COLOR \in DOMAIN kw /\ colors # <<>>
                wantsTemp == ATTR_COLOR_TEMP \in DOMAIN kw /\ temps # <<>>
            IN  /\ Len(device_calls[e]) = 1
                /\ LET c == device_calls[e][1]
                   IN  /\ wantsColor =>
                              /\ c.fn = "set_color"
                              /\ \E i \in DOMAIN colors : colors[i] = c.args
                              /\ \A i \in DOMAIN colors :
                                     HueDistance(colors[i], kw.hs_color)
                                         >= HueDistance(c.args, kw.hs_color)
                              /\ \A i \in DOMAIN colors :
                                     colors[i][1] = c.args[1] =>
                                         SatDistance(colors[i], kw.hs_color)
                                             >= SatDistance(c.args, kw.hs_color)
                       /\ (~wantsColor /\ wantsTemp) =>
                              /\ c.fn = "set_color_temp"
                              /\ Len(c.args) = 1
                              /\ c.args[1] \in Range(temps)
                              /\ \A j \in DOMAIN temps :
                                     Abs(temps[j] - color_temperature_mired_to_kelvin(kw.color_temp))
                                         >= Abs(c.args[1] - color_temperature_mired_to_kelvin(kw.color_temp))
                       /\ (~wantsColor /\ ~wantsTemp) =>
                              c = [fn |-> "set_state_on", args |-> <<>>]

\* A finished turn-on that requested both hs_color and color_temp on an
\* entity supporting both.
C3_Witness ==
    \E e \in Entities :
        /\ cmd[e] = "turn_on" /\ Succeeded(e)
        /\ DOMAIN kwargs[e] = {ATTR_HS_COLOR, ATTR_COLOR_TEMP}
        /\ supported_colors[e] # <<>> /\ supported_color_temps[e] # <<>>
        /\ device_calls[e][1].fn = "set_color"

\* C4: a refresh is requested only after the command's device call has been
\* issued and has returned, never while it is outstanding, and a command
\* that succeeds has issued one device call and then one refresh request.
C4_RefreshAfterDeviceCall ==
    \A e \in Entities :
        /\ pc[e] = "device_call" => "refresh" \notin Range(events[e])
        /\ \A i \in DOMAIN events[e] :
               events[e][i] = "refresh" =>
                   /\ i = 3
                   /\ events[e][1] = "device_call"
                   /\ events[e][2] = "device_returned"
        /\ Succeeded(e) =>
               /\ events[e] = <<"device_call", "device_returned",
                                "refresh", "refresh_returned">>
               /\ Len(device_calls[e]) = 1

\* A turn-off that succeeded.
C4_Witness ==
    \E e \in Entities :
        /\ cmd[e] = "turn_off" /\ Succeeded(e)
        /\ device_calls[e] = <<[fn |-> "set_state_off", args |-> <<>>]>>

\* C5: when the device call raises, the command ends with that failure, one
\* device call issued and no refresh requested; when the refresh raises, the
\* command ends with that failure and the one device call is not re-issued.
C5_FailurePropagates ==
    \A e \in Entities :
        /\ "device_raised" \in Range(events[e]) =>
               /\ pc[e] = "done"
               /\ result[e] \in Errors
               /\ events[e] = <<"device_call", "device_raised", result[e]>>
               /\ Len(device_calls[e]) = 1
        /\ "refresh_raised" \in Range(events[e]) =>
               /\ pc[e] = "done"
               /\ result[e] \in Errors
               /\ events[e] = <<"device_call", "device_returned", "refresh",
                                "refresh_raised", result[e]>>
               /\ Len(device_calls[e]) = 1

\* A turn-on whose device call raised.
C5_Witness ==
    \E e \in Entities :
        /\ cmd[e] = "turn_on" /\ pc[e] = "done"
        /\ "device_raised" \in Range(events[e])
        /\ result[e] = "ConnectionError"

\* C6 as stated: color_mode is a member of supported_color_modes, or is
\* undefined while the device is absent.
C6_ColorModeSupported ==
    \A e \in Entities :
        \/ color_mode(e) \in supported_color_modes(e)
        \/ (~device(e).present /\ color_mode(e) = NoMode)

\* C7: supported_color_modes is the set derived from the mode code the device
\* reported at construction, whatever the commands and refreshes did since.
C7_SupportedModesFixed ==
    \A e \in Entities :
        /\ init_code[e] = 1 => supported_color_modes(e) = {"color_temp"}
        /\ init_code[e] = 4 => supported_color_modes(e) = {"hs"}
        /\ init_code[e] = 5 => supported_color_modes(e) = {"hs", "color_temp"}
        /\ init_code[e] \notin {1, 4, 5} => supported_color_modes(e) = {"onoff"}

\* A command has finished and the snapshot now reports another mode code
\* than at construction.
C7_Witness ==
    \E e \in Entities :
        /\ Succeeded(e)
        /\ device(e).supported_color_mode = 4
        /\ init_code[e] = 1

\* C8: is_on is false while the snapshot says the device is absent, and is
\* the snapshot's on/off flag while it says the device is present.
C8_IsOnFollowsSnapshot ==
    \A e \in Entities :
        /\ ~device(e).present => is_on(e) = FALSE
        /\ device(e).present => is_on(e) = device(e).state

\* After a command's refresh the device is absent with its flag still on.
C8_Witness ==
    \E e \in Entities :
        /\ Succeeded(e)
        /\ ~device(e).present /\ device(e).state
        /\ ~is_on(e)

\* C10: no turn-on ends in the ValueError of a minimum over no candidates.
C10_NoEmptyMinimum ==
    \A e \in Entities : result[e] # "ValueError"

\* A turn-on that requested hs_color and color_temp on an entity with
\* neither list has finished.
C10_Witness ==
    \E e \in Entities :
        /\ cmd[e] = "turn_on" /\ Succeeded(e)
        /\ DOMAIN kwargs[e] = {ATTR_HS_COLOR, ATTR_COLOR_TEMP}
        /\ supported_colors[e] = <<>> /\ supported_color_temps[e] = <<>>
        /\ device_calls[e] = <<[fn |-> "set_state_on", args |-> <<>>]>>

(***************************************************************************)
(* Two entities (SpecCross).                                               *)
(***************************************************************************)
\* The calls entity d's own command issues when it runs alone.
OwnCalls(d) ==
    IF cmd[d] = "turn_on" THEN <<TurnOnCall(d, kwargs[d])>>
    ELSE IF cmd[d] = "turn_off" THEN <<TurnOffCall>>
    ELSE <<>>

\* Each device has received exactly the calls of its own entity's command.
OwnCallsOnly == \A d \in DOMAIN data : device_calls[d] = OwnCalls(d)

\* No step changes a cached capability list.
CapabilitiesKept ==
    /\ supported_colors' = supported_colors
    /\ supported_color_temps' = supported_color_temps

\* C9: however the two entities' commands interleave, each device has
\* received exactly the calls of its own entity's command, with the
\* parameters that command computes from its own kwargs and capability
\* lists, and no command changes a cached capability list.
C9_DevicesIndependent == []OwnCallsOnly /\ [][CapabilitiesKept]_vars

\* Both entities have a command in flight, with different calls.
C9_Witness ==
    /\ pc["ain1"] = "device_call" /\ pc["ain2"] = "refresh"
    /\ cmd["ain1"] = "turn_on" /\ cmd["ain2"] = "turn_off"
    /\ device_calls["ain1"][1].fn = "set_color"
    /\ device_calls["ain2"][1].fn = "set_state_off"

====
